---- MODULE Spec2Model ----
(***************************************************************************)
(* Model of the dashboard-stock repository: the period-keyed series cache  *)
(* in front of yfinance (Extractor.fetch_data with the Callbacks handlers, *)
(* and the monolithic StockDashboard of stocks.py), the yearly-returns     *)
(* aggregation, and the monthly investment projection.                     *)
(*                                                                         *)
(* Time is a day number; a calendar year has DaysPerYear days.  A          *)
(* DataFrame is a record of its column names and its rows, a row being a   *)
(* record [Date, Close]; Python's None and a raised exception are records  *)
(* of the same shape with another kind, so that every value a handler can  *)
(* hold compares with every other.                                         *)
(***************************************************************************)
EXTENDS Integers, Sequences, FiniteSets, TLC

(* ------------------------------ bounds --------------------------------- *)
\* days in one model year
DaysPerYear == 2
\* the last day the clock reaches (days are 0..MaxNow)
MaxNow == 2
\* the largest number of rows the upstream source returns in one download
MaxRows == 3
\* the largest number of upstream downloads in one run
MaxCalls == 2
\* the largest num_years a projection is asked for
MaxNumYears == 2
\* amounts of money are whole multiples of 1/Unit DKK
Unit == 100
\* the request threads of the server that run handlers at the same time
MaxThreads == 2

VARIABLES
    now,            \* datetime.now(), as a day number
    data_cache,     \* Extractor.data_cache: period -> DataFrame
    sd_data_cache,  \* StockDashboard.data_cache (stocks.py): period -> DataFrame
    downloads,      \* the yf.download calls so far: arguments, and what came back
    figure,         \* what the latest update_graph returned (or raised)
    yearly,         \* what the latest update_yearly_returns_graph was given
    pc,             \* where the running calculate_investment stands
    engine,         \* the class whose calculate_investment runs
    args,           \* its arguments
    i,              \* the month index of its loop
    investment_value, profit, tax,          \* its locals, in 1/Unit DKK
    investment, money_invested, profits,    \* its three monthly lists
    result,         \* the three yearly lists it returns, in DKK
    caller,         \* who called it: a direct call, or predict_investment
    form,           \* the State values predict_investment was called with
    prediction,     \* the figure predict_investment returned
    heap,           \* the DataFrame objects the concurrent handlers created
    cache_refs,     \* Extractor.data_cache as they share it: period -> object
    thread          \* where each request thread stands, and the df it holds

cacheVars == <<now, data_cache, sd_data_cache, downloads, figure, yearly>>
projVars == <<pc, engine, args, i, investment_value, profit, tax,
              investment, money_invested, profits, result,
              caller, form, prediction>>
concVars == <<heap, cache_refs, thread>>
vars == <<cacheVars, projVars, concVars>>

(* --------------------------- the data model ---------------------------- *)
\* the period buttons pressed in a run: of the nine ids update_graph listens
\* to, one for every branch the code takes on a button id ("1mo", "3mo",
\* "6mo" and "5y" go the way of "1y")
Buttons == {"1d", "5d", "1y", "ytd", "max"}

\* the same for stocks.py, which has no "5d" button
StockButtons == {"1d", "1y", "ytd", "max"}

\* datetime.year of a day number, and datetime(year, 1, 1)
YearOf(t) == t \div DaysPerYear
Jan1(year) == year * DaysPerYear

\* the closing price the market had on day t
ClosePrice(t) == 100 + 10 * ((t * t + t \div 2) % 4) - t

None == [kind |-> "None", columns |-> {}, rows |-> <<>>]
Raised == [kind |-> "raise", columns |-> {}, rows |-> <<>>]
DataFrame(cols, rws) == [kind |-> "DataFrame", columns |-> cols, rows |-> rws]
EmptyFrame == DataFrame({"Close"}, <<>>)

\* df.empty
IsEmpty(df) == Len(df.rows) = 0

RECURSIVE SortedSeq(_)
SortedSeq(S) ==
    IF S = {} THEN <<>>
    ELSE LET m == CHOOSE x \in S : \A y \in S : x <= y
         IN <<m>> \o SortedSeq(S \ {m})

\* the rows yfinance delivers for a sequence of dates
RowsOf(dates) == [n \in 1..Len(dates) |-> [Date |-> dates[n], Close |-> ClosePrice(dates[n])]]

\* the frames yfinance can ever deliver
Frames ==
    { DataFrame({"Close"}, RowsOf(SortedSeq(S)))
      : S \in { T \in SUBSET (0..MaxNow) : T # {} /\ Cardinality(T) <= MaxRows } }

\* the frames yfinance can deliver on day t: rows of strictly increasing
\* dates not after t, at most MaxRows of them
FramesAt(t) == { df \in Frames : df.rows[Len(df.rows)].Date <= t }

\* everything one yf.download can do on day t: raise, return an empty frame,
\* or return data
OutcomesAt(t) == {Raised, EmptyFrame} \cup FramesAt(t)

\* how many downloads the upstream source has served so far
TotalCalls == Len(downloads)

\* how often yf.download was invoked with period, and how often it then
\* returned data
Calls(period) == Cardinality({ n \in 1..Len(downloads) : downloads[n].period = period })
Delivered(download) == download.out.kind = "DataFrame" /\ Len(download.out.rows) > 0
Fetched(period) ==
    Cardinality({ n \in 1..Len(downloads) :
                    downloads[n].period = period /\ Delivered(downloads[n]) })

(* ----------------------- Extractor.fetch_data -------------------------- *)
\* fetch_data without its cache lookup
Hit_NoLookup(cache, period) == FALSE

\* `period in self.data_cache`
Hit(cache, period) == period \in DOMAIN cache

\* the interval Extractor.fetch_data passes to yf.download ("1d" is the
\* default yfinance applies when no interval is passed)
Interval(period) ==
    IF period = "1d" THEN "1m"
    ELSE IF period = "5d" THEN "1h"
    ELSE "1d"

\* fetch_data without its df.empty check
FetchFailed_NoEmptyCheck(out) == out.kind = "raise"

\* the try block ends in the except branch: yf.download raised, or df.empty
\* raised the ValueError
FetchFailed(out) == out.kind = "raise" \/ IsEmpty(out)

\* fetch_data storing df before it looks at df.empty
FetchStore_BeforeEmptyCheck(cache, period, out) ==
    IF period \in DOMAIN cache THEN cache
    ELSE IF out.kind = "raise" THEN cache
    ELSE cache @@ (period :> out)

\* fetch_data without its `self.data_cache[period] = df`
FetchStore_NoInsert(cache, period, out) == cache

\* the cache after fetch_data(period), yf.download doing `out` when called
FetchStore(cache, period, out) ==
    IF Hit(cache, period) THEN cache
    ELSE IF FetchFailed(out) THEN cache
    ELSE cache @@ (period :> out)

\* what fetch_data(period) returns
FetchReturn(cache, period, out) ==
    IF Hit(cache, period) THEN cache[period]
    ELSE IF FetchFailed(out) THEN None
    ELSE out

\* the upstream source as fetch_data(period) leaves it: contacted on a miss
\* only, with the symbol and the interval of the calling class
Upstream(cache, symbol, period, interval, out) ==
    IF Hit(cache, period)
    THEN UNCHANGED downloads
    ELSE downloads' = Append(downloads,
                             [symbol |-> symbol, period |-> period,
                              interval |-> interval, out |-> out])

\* the outcomes a call of fetch_data(period) has to reckon with: on a hit
\* yf.download is not reached
Outcomes(cache, period) ==
    IF Hit(cache, period) THEN {Raised} ELSE OutcomesAt(now)

\* a miss needs one more download of the bounded upstream
CanFetch(cache, period) == Hit(cache, period) \/ TotalCalls < MaxCalls

(* ------------------- Callbacks.update_graph (callbacks.py) ------------- *)
\* the period update_graph asks fetch_data for
PeriodOf(button_id) ==
    IF button_id = "ytd" THEN "max"
    ELSE IF button_id = "max" THEN "max"
    ELSE button_id

\* df[df.index > start_date]
YtdFilter_Strict(df, start_date) ==
    DataFrame(df.columns, SelectSeq(df.rows, LAMBDA r : r.Date > start_date))

\* df[df.index >= start_date]: a new frame of the rows not before start_date
YtdFilter(df, start_date) ==
    DataFrame(df.columns, SelectSeq(df.rows, LAMBDA r : r.Date >= start_date))

NoDataFigure == [kind |-> "no_data", rows |-> <<>>]
ExceptionFigure == [kind |-> "exception", rows |-> <<>>]
PlotFigure(df) == [kind |-> "plot", rows |-> df.rows]

\* what update_graph returns for button_id when fetch_data returned df on
\* day today; "exception" stands for the exception that leaves the handler
UpdateGraphResult(button_id, df, today) ==
    IF button_id = "ytd"
    THEN IF df.kind = "None" THEN ExceptionFigure
         ELSE LET ytd == YtdFilter(df, Jan1(YearOf(today)))
              IN IF IsEmpty(ytd) THEN NoDataFigure ELSE PlotFigure(ytd)
    ELSE IF df.kind = "None" \/ IsEmpty(df) THEN NoDataFigure
         ELSE PlotFigure(df)

\* ctx.triggered is empty on the initial call, which shows "ytd"
ButtonId(triggered, button) == IF ~triggered THEN "ytd" ELSE button

update_graph(button_id, out) ==
    LET period == PeriodOf(button_id)
        df == FetchReturn(data_cache, period, out)
    IN /\ CanFetch(data_cache, period)
       /\ Upstream(data_cache, "SXR8.DE", period, Interval(period), out)
       /\ data_cache' = FetchStore(data_cache, period, out)
       /\ figure' = UpdateGraphResult(button_id, df, now)
       /\ UNCHANGED <<now, sd_data_cache, yearly, projVars, concVars>>

(* ----------------- Extractor.calculate_yearly_returns ------------------ *)
NaN == [nan |-> TRUE, num |-> 0, den |-> 1]
\* the float num / den
Ratio(num, den) == [nan |-> FALSE, num |-> num, den |-> den]

\* df["Year"] = df.index.year, on the frame object itself
WithYear(df) == [df EXCEPT !.columns = @ \cup {"Year"}]

\* df.groupby("Year")["Close"].last(): per year, in increasing year order,
\* the Close of the last row of that year
YearlyPrices(df) ==
    LET years == SortedSeq({ YearOf(df.rows[n].Date) : n \in 1..Len(df.rows) })
        lastOf(y) == CHOOSE n \in 1..Len(df.rows) :
                        /\ YearOf(df.rows[n].Date) = y
                        /\ \A m \in 1..Len(df.rows) :
                              YearOf(df.rows[m].Date) = y => m <= n
    IN [k \in 1..Len(years) |->
           [Year |-> years[k], Close |-> df.rows[lastOf(years[k])].Close]]

\* the change taken relative to the year's own price
YearlyReturns_OverCurrent(prices) ==
    [k \in 1..Len(prices) |->
        [Year |-> prices[k].Year,
         PercentageChange |->
            IF k = 1 THEN NaN
            ELSE Ratio((prices[k].Close - prices[k-1].Close) * 100, prices[k].Close)]]

\* yearly_prices.pct_change() * 100, with reset_index and the two column
\* names: the first entry has no predecessor and is NaN
YearlyReturns(prices) ==
    [k \in 1..Len(prices) |->
        [Year |-> prices[k].Year,
         PercentageChange |->
            IF k = 1 THEN NaN
            ELSE Ratio((prices[k].Close - prices[k-1].Close) * 100, prices[k-1].Close)]]

\* does calculate_yearly_returns take the branch that computes
Computes(df) == df.kind # "None" /\ "Close" \in df.columns

\* what calculate_yearly_returns returns when fetch_data returned df
YearlyReturnsOf(df) ==
    IF Computes(df) THEN YearlyReturns(YearlyPrices(WithYear(df))) ELSE <<>>

\* the cache after calculate_yearly_returns: the frame it got from
\* fetch_data is the cached object, and the Year column is added to it
StoreAfterYearly(cache, df) ==
    IF Computes(df) /\ Hit(cache, "max")
    THEN [cache EXCEPT !["max"] = WithYear(@)]
    ELSE cache

\* update_yearly_returns_graph: the timer's callback
update_yearly_returns_graph(out) ==
    LET df == FetchReturn(data_cache, "max", out)
        returns == YearlyReturnsOf(df)
    IN /\ CanFetch(data_cache, "max")
       /\ Upstream(data_cache, "SXR8.DE", "max", Interval("max"), out)
       /\ data_cache' = StoreAfterYearly(FetchStore(data_cache, "max", out), df)
       /\ yearly' = IF Len(returns) = 0
                    THEN [kind |-> "no_data", rows |-> <<>>]
                    ELSE [kind |-> "bar", rows |-> returns]
       /\ UNCHANGED <<now, sd_data_cache, figure, projVars, concVars>>

(* ------------------ StockDashboard (stocks.py) ------------------------- *)
\* StockDashboard.fetch_data passes no interval: yfinance's default
StockInterval(period) == "1d"

\* what update_graph of stocks.py returns when fetch_data returned df
StockGraphResult(df) ==
    IF df.kind = "None" THEN NoDataFigure ELSE PlotFigure(df)

\* update_graph of stocks.py: the button id is the period fetched
stock_update_graph(button_id, out) ==
    LET period == button_id
        df == FetchReturn(sd_data_cache, period, out)
    IN /\ CanFetch(sd_data_cache, period)
       /\ Upstream(sd_data_cache, "^GSPC", period, StockInterval(period), out)
       /\ sd_data_cache' = FetchStore(sd_data_cache, period, out)
       /\ figure' = StockGraphResult(df)
       /\ UNCHANGED <<now, data_cache, yearly, projVars, concVars>>

(* ------------------------------ the clock ------------------------------ *)
Tick ==
    /\ now < MaxNow
    /\ now' = now + 1
    /\ UNCHANGED <<data_cache, sd_data_cache, downloads, figure, yearly, projVars, concVars>>

(* ---------------------- calculate_investment -------------------------- *)
\* Floats are modelled in fixed point: an amount is an integer number of
\* 1/Unit DKK, a rate an integer number of 1/RateDen, and a product of an
\* amount and a rate is rounded to the nearest 1/Unit DKK.
RateDen == 10000

low_tax == 27
high_tax == 42
TaxDen == 100
months == 12

\* threshold_tax of the class, in DKK
threshold_tax(cls) == IF cls = "Extractor" THEN 80000 ELSE 61000

\* a / b to the nearest integer, b > 0
RoundDiv(a, b) == (2 * a + b) \div (2 * b)

\* amount * (n / d) to the nearest 1/Unit DKK, without leaving 32 bits
MulDiv(amount, n, d) == (amount \div d) * n + RoundDiv((amount % d) * n, d)

\* round(num) with ties going up
round_HalfUp(num) == (2 * num + Unit) \div (2 * Unit)

\* Python's round(num) of an amount: the nearest whole DKK, ties to even
round(num) ==
    LET q == num \div Unit
        r == num % Unit
    IN IF 2 * r < Unit THEN q
       ELSE IF 2 * r > Unit THEN q + 1
       ELSE IF q % 2 = 0 THEN q ELSE q + 1

\* investment_value * monthly_interest_rate, the rate being rate / months
TimesMonthlyRate(amount, rate) == MulDiv(amount, rate, RateDen * months)

\* the tax taken in the first month of a year instead of the last
TaxOf_AtYearStart(cls, idx, p) ==
    IF idx % months = 0
    THEN IF p < threshold_tax(cls) * Unit
         THEN MulDiv(p, low_tax, TaxDen)
         ELSE MulDiv(threshold_tax(cls) * Unit, low_tax, TaxDen)
              + MulDiv(p - threshold_tax(cls) * Unit, high_tax, TaxDen)
    ELSE 0

\* the high rate taken on the whole profit once it reaches the threshold
TaxOf_HighOnWhole(cls, idx, p) ==
    IF (idx + 1) % months = 0
    THEN IF p < threshold_tax(cls) * Unit
         THEN MulDiv(p, low_tax, TaxDen)
         ELSE MulDiv(p, high_tax, TaxDen)
    ELSE 0

\* the tax of month index idx on profit p
TaxOf(cls, idx, p) ==
    IF (idx + 1) % months = 0
    THEN IF p < threshold_tax(cls) * Unit
         THEN MulDiv(p, low_tax, TaxDen)
         ELSE MulDiv(threshold_tax(cls) * Unit, low_tax, TaxDen)
              + MulDiv(p - threshold_tax(cls) * Unit, high_tax, TaxDen)
    ELSE 0

\* initial_investment + i * monthly_investment
TotalMoney_FromIndex(initial, monthly, idx) == initial + idx * monthly

\* total_money of month index idx
TotalMoney(initial, monthly, idx) == initial + (idx + 1) * monthly

\* lst[1::months], rounded
YearlySample_FromOne(lst) ==
    [k \in 1..((Len(lst) + months - 2) \div months) |-> round(lst[(k - 1) * months + 2])]

\* lst[0::months], rounded
YearlySample(lst) ==
    [k \in 1..((Len(lst) + months - 1) \div months) |-> round(lst[(k - 1) * months + 1])]

\* the classes that carry a calculate_investment
Engines == {"Extractor", "DataFetcher", "StockDashboard"}

\* the arguments a projection is called with
Inputs ==
    [initial_investment : {0, 1000 * Unit + Unit \div 2, 100000 * Unit, 1000000 * Unit},
     monthly_investment : {0, 5000 * Unit},
     num_years : 0..MaxNumYears,
     annual_interest_rate : {0, 700, 1200},
     ongoing_charges_rate : {0, 7, 1200}]

NoArgs == [initial_investment |-> 0, monthly_investment |-> 0, num_years |-> 0,
           annual_interest_rate |-> 0, ongoing_charges_rate |-> 0]
NoResult == [money_invested_yearly |-> <<>>, investment_yearly |-> <<>>,
             profits_yearly |-> <<>>]

\* the statements before the loop
Enter ==
    /\ pc = "call"
    /\ pc' = "loop"
    /\ i' = 0
    /\ investment_value' = args.initial_investment
    /\ profit' = 0
    /\ tax' = 0
    /\ investment' = <<args.initial_investment>>
    /\ money_invested' = <<args.initial_investment>>
    /\ profits' = <<0>>
    /\ UNCHANGED <<engine, args, result, caller, form, prediction, cacheVars, concVars>>

\* the loop body with the running profit carried from month to month, so
\* that a tax once taken stays taken
Month_CumulativeTax ==
    /\ pc = "loop"
    /\ i < args.num_years * months
    /\ LET interest == TimesMonthlyRate(investment_value, args.annual_interest_rate)
           value == investment_value + interest + args.monthly_investment
           pretax == profit + interest
           t == TaxOf(engine, i, pretax)
           ongoing_charges == TimesMonthlyRate(value, args.ongoing_charges_rate)
           total_money == TotalMoney(args.initial_investment, args.monthly_investment, i)
       IN /\ tax' = t
          /\ profit' = pretax - t
          /\ investment_value' = value - ongoing_charges
          /\ investment' = Append(investment, value - ongoing_charges)
          /\ profits' = Append(profits, pretax - t)
          /\ money_invested' = Append(money_invested, total_money)
    /\ i' = i + 1
    /\ UNCHANGED <<pc, engine, args, result, caller, form, prediction, cacheVars, concVars>>

\* the loop body with the tax taken out of investment_value as well
Month_TaxFromValue ==
    /\ pc = "loop"
    /\ i < args.num_years * months
    /\ LET interest == TimesMonthlyRate(investment_value, args.annual_interest_rate)
           value == investment_value + interest + args.monthly_investment
           pretax == value - args.initial_investment - (i + 1) * args.monthly_investment
           t == TaxOf(engine, i, pretax)
           ongoing_charges == TimesMonthlyRate(value, args.ongoing_charges_rate)
           total_money == TotalMoney(args.initial_investment, args.monthly_investment, i)
       IN /\ tax' = t
          /\ profit' = pretax - t
          /\ investment_value' = value - ongoing_charges - t
          /\ investment' = Append(investment, value - ongoing_charges - t)
          /\ profits' = Append(profits, pretax - t)
          /\ money_invested' = Append(money_invested, total_money)
    /\ i' = i + 1
    /\ UNCHANGED <<pc, engine, args, result, caller, form, prediction, cacheVars, concVars>>

\* one pass of `for i in range(num_months)`
Month ==
    /\ pc = "loop"
    /\ i < args.num_years * months
    /\ LET interest == TimesMonthlyRate(investment_value, args.annual_interest_rate)
           value == investment_value + interest + args.monthly_investment
           pretax == value - args.initial_investment - (i + 1) * args.monthly_investment
           t == TaxOf(engine, i, pretax)
           ongoing_charges == TimesMonthlyRate(value, args.ongoing_charges_rate)
           total_money == TotalMoney(args.initial_investment, args.monthly_investment, i)
       IN /\ tax' = t
          /\ profit' = pretax - t
          /\ investment_value' = value - ongoing_charges
          /\ investment' = Append(investment, value - ongoing_charges)
          /\ profits' = Append(profits, pretax - t)
          /\ money_invested' = Append(money_invested, total_money)
    /\ i' = i + 1
    /\ UNCHANGED <<pc, engine, args, result, caller, form, prediction, cacheVars, concVars>>

\* the loop is over: sample the three lists and return
Return ==
    /\ pc = "loop"
    /\ ~(i < args.num_years * months)
    /\ pc' = "done"
    /\ result' = [money_invested_yearly |-> YearlySample(money_invested),
                  investment_yearly |-> YearlySample(investment),
                  profits_yearly |-> YearlySample(profits)]
    /\ UNCHANGED <<engine, args, i, investment_value, profit, tax,
                   investment, money_invested, profits,
                   caller, form, prediction, cacheVars, concVars>>

(* ------------------------- predict_investment -------------------------- *)
\* the State values of the form: amounts in 1/Unit DKK, the two rates in
\* 1/RateDen percent
FormInputs ==
    [initial_investment : {0, 1000 * Unit + Unit \div 2, 100000 * Unit},
     monthly_investment : {0, 5000 * Unit},
     num_years : 0..MaxNumYears,
     annual_interest_rate : {0, 7 * RateDen},
     ongoing_charges_rate : {0, (7 * RateDen) \div 100}]

\* `not value` of a number
Falsy(value) == value = 0

\* the test predict_investment opens with
AnyFalsy(f) ==
    \/ Falsy(f.initial_investment)
    \/ Falsy(f.monthly_investment)
    \/ Falsy(f.num_years)
    \/ Falsy(f.annual_interest_rate)
    \/ Falsy(f.ongoing_charges_rate)

\* rate /= 100: from percent to a fraction, both in 1/RateDen
PercentToRate(percent) == percent \div 100

\* go.Figure(), and the figure of the three traces over range(num_years + 1)
EmptyFigure == [kind |-> "empty", x |-> <<>>, traces |-> NoResult]
NoPrediction == [kind |-> "none", x |-> <<>>, traces |-> NoResult]
TracesFigure(num_years, res) ==
    [kind |-> "traces", x |-> [k \in 1..(num_years + 1) |-> k - 1], traces |-> res]

\* predict_investment up to its call of calculate_investment
PredictInvestment ==
    /\ pc = "predict"
    /\ IF AnyFalsy(form)
       THEN /\ pc' = "shown"
            /\ prediction' = EmptyFigure
            /\ UNCHANGED args
       ELSE /\ pc' = "call"
            /\ args' = [form EXCEPT
                          !.annual_interest_rate = PercentToRate(@),
                          !.ongoing_charges_rate = PercentToRate(@)]
            /\ UNCHANGED prediction
    /\ UNCHANGED <<engine, i, investment_value, profit, tax, investment,
                   money_invested, profits, result, caller, form, cacheVars, concVars>>

\* predict_investment from the return of calculate_investment on
PredictShow ==
    /\ pc = "done"
    /\ caller = "predict_investment"
    /\ pc' = "shown"
    /\ prediction' = TracesFigure(args.num_years, result)
    /\ UNCHANGED <<engine, args, i, investment_value, profit, tax, investment,
                   money_invested, profits, result, caller, form, cacheVars, concVars>>

(* ------------------- the handlers run concurrently --------------------- *)
\* The server runs each callback in a thread of its own. A thread holds
\* a reference to a DataFrame object (its local df); the cache holds
\* references too, so that two threads can hold the same object. A handler
\* is cut where another thread can run in between: after the lookup, after
\* the download, after the store, and inside every operation on a frame
\* (pandas sets a column and reads a frame in many steps).
Threads == 1..MaxThreads

\* the reference None
NoRef == 0

IdleThread == [pc |-> "idle", handler |-> "none", period |-> "none", df |-> NoRef]

\* the handlers that call fetch_data, with the period they ask for
Requests ==
    { [handler |-> "update_graph", period |-> PeriodOf(ButtonId(triggered, button))]
      : triggered \in BOOLEAN, button \in Buttons }
    \cup { [handler |-> "update_yearly_returns_graph", period |-> "max"] }

\* a callback arrives and calls fetch_data
Call(t) ==
    /\ thread[t].pc = "idle"
    /\ \E r \in Requests :
          thread' = [thread EXCEPT ![t] =
                        [pc |-> "lookup", handler |-> r.handler,
                         period |-> r.period, df |-> NoRef]]
    /\ UNCHANGED <<heap, cache_refs, cacheVars, projVars>>

\* `if period in self.data_cache: return self.data_cache[period]`
Lookup(t) ==
    /\ thread[t].pc = "lookup"
    /\ thread' = [thread EXCEPT ![t] =
                    IF Hit(cache_refs, thread[t].period)
                    THEN [@ EXCEPT !.pc = "fetched", !.df = cache_refs[thread[t].period]]
                    ELSE [@ EXCEPT !.pc = "download"]]
    /\ UNCHANGED <<heap, cache_refs, cacheVars, projVars>>

\* yf.download and the df.empty check: a failure returns None, a success
\* makes a new frame object, complete before any other thread can reach it
Download(t) ==
    /\ thread[t].pc = "download"
    /\ \E out \in OutcomesAt(now) :
          IF FetchFailed(out)
          THEN /\ thread' = [thread EXCEPT ![t] = [@ EXCEPT !.pc = "fetched", !.df = NoRef]]
               /\ UNCHANGED heap
          ELSE /\ Len(heap) < MaxCalls
               /\ heap' = Append(heap, out)
               /\ thread' = [thread EXCEPT ![t] = [@ EXCEPT !.pc = "store", !.df = Len(heap) + 1]]
    /\ UNCHANGED <<cache_refs, cacheVars, projVars>>

\* `self.data_cache[period] = df`: one dictionary store
Store(t) ==
    /\ thread[t].pc = "store"
    /\ cache_refs' = [p \in DOMAIN cache_refs \cup {thread[t].period} |->
                         IF p = thread[t].period THEN thread[t].df ELSE cache_refs[p]]
    /\ thread' = [thread EXCEPT ![t] = [@ EXCEPT !.pc = "fetched"]]
    /\ UNCHANGED <<heap, cacheVars, projVars>>

\* fetch_data has returned: without a frame the handler is over (the
\* no-data figure, the empty returns, or the exception of the "ytd"
\* branch); with one, update_graph starts reading it for the plot and
\* calculate_yearly_returns starts setting its Year column
Returned(t) ==
    /\ thread[t].pc = "fetched"
    /\ thread' = [thread EXCEPT ![t] =
                    IF thread[t].df = NoRef THEN IdleThread
                    ELSE IF thread[t].handler = "update_graph"
                         THEN [@ EXCEPT !.pc = "plot"]
                         ELSE [@ EXCEPT !.pc = "set_year"]]
    /\ UNCHANGED <<heap, cache_refs, cacheVars, projVars>>

\* update_graph has read df.index and df["Close"] and returns the figure
Plot(t) ==
    /\ thread[t].pc = "plot"
    /\ thread' = [thread EXCEPT ![t] = IdleThread]
    /\ UNCHANGED <<heap, cache_refs, cacheVars, projVars>>

\* `df["Year"] = df.index.year` completes on the object df refers to
SetYear(t) ==
    /\ thread[t].pc = "set_year"
    /\ heap' = [heap EXCEPT ![thread[t].df] = WithYear(@)]
    /\ thread' = [thread EXCEPT ![t] = [@ EXCEPT !.pc = "groupby"]]
    /\ UNCHANGED <<cache_refs, cacheVars, projVars>>

\* groupby, pct_change and the bar figure: the handler returns
GroupBy(t) ==
    /\ thread[t].pc = "groupby"
    /\ thread' = [thread EXCEPT ![t] = IdleThread]
    /\ UNCHANGED <<heap, cache_refs, cacheVars, projVars>>

(* --------------------------- specifications ---------------------------- *)
ConcIdle ==
    /\ heap = <<>>
    /\ cache_refs = <<>>
    /\ thread = [t \in Threads |-> IdleThread]

ProjIdle ==
    /\ pc = "idle"
    /\ engine = "Extractor"
    /\ args = NoArgs
    /\ i = 0
    /\ investment_value = 0
    /\ profit = 0
    /\ tax = 0
    /\ investment = <<>>
    /\ money_invested = <<>>
    /\ profits = <<>>
    /\ result = NoResult
    /\ caller = "direct"
    /\ form = NoArgs
    /\ prediction = NoPrediction

CacheInit ==
    /\ now = 0
    /\ data_cache = <<>>
    /\ sd_data_cache = <<>>
    /\ downloads = <<>>
    /\ figure = [kind |-> "initial", rows |-> <<>>]
    /\ yearly = [kind |-> "initial", rows |-> <<>>]

Init == CacheInit /\ ProjIdle /\ ConcIdle

\* one call of calculate_investment, of any class with any arguments, or
\* one click on the predict button with any values in the form
InitProj ==
    /\ CacheInit
    /\ ConcIdle
    /\ engine \in Engines
    /\ \/ /\ caller = "direct"
          /\ pc = "call"
          /\ args \in Inputs
          /\ form = NoArgs
       \/ /\ caller = "predict_investment"
          /\ pc = "predict"
          /\ args = NoArgs
          /\ form \in FormInputs
    /\ prediction = NoPrediction
    /\ i = 0
    /\ investment_value = 0
    /\ profit = 0
    /\ tax = 0
    /\ investment = <<>>
    /\ money_invested = <<>>
    /\ profits = <<>>
    /\ result = NoResult

\* the button ids update_graph can find itself called for
ButtonIds == { ButtonId(triggered, button) : triggered \in BOOLEAN, button \in Buttons }
StockButtonIds == { ButtonId(triggered, button) : triggered \in BOOLEAN, button \in StockButtons }

UpdateGraph ==
    \E button_id \in ButtonIds :
        \E out \in Outcomes(data_cache, PeriodOf(button_id)) :
            update_graph(button_id, out)

UpdateYearlyReturnsGraph ==
    \E out \in Outcomes(data_cache, "max") : update_yearly_returns_graph(out)

StockUpdateGraph ==
    \E button_id \in StockButtonIds :
        \E out \in Outcomes(sd_data_cache, button_id) :
            stock_update_graph(button_id, out)

\* the dashboard of callbacks.py over an Extractor
Next == UpdateGraph \/ UpdateYearlyReturnsGraph \/ Tick
Spec == Init /\ [][Next]_vars

\* the dashboard of stocks.py
NextStocks == StockUpdateGraph \/ Tick
SpecStocks == Init /\ [][NextStocks]_vars

\* one projection
NextProj == PredictInvestment \/ Enter \/ Month \/ Return \/ PredictShow
SpecProj == InitProj /\ [][NextProj]_vars

\* the handlers of callbacks.py in concurrent request threads
NextConc ==
    \/ \E t \in Threads :
          \/ Call(t)
          \/ Lookup(t)
          \/ Download(t)
          \/ Store(t)
          \/ Returned(t)
          \/ Plot(t)
          \/ SetYear(t)
          \/ GroupBy(t)
    \/ Tick
SpecConc == Init /\ [][NextConc]_vars

(* ------------------------------ claims --------------------------------- *)
\* what the upstream source did in a step: the outcome of its download; a
\* step without a download asked nothing of it (Raised stands in, as in
\* Outcomes)
StepOutcomes ==
    IF Len(downloads') > Len(downloads)
    THEN {downloads'[Len(downloads')].out}
    ELSE {Raised}

\* C1: once a period is in the cache, no step downloads it again, however
\* many other requests and clock ticks lie between: it was downloaded with
\* success exactly once, a request for it leaves the download log as it is,
\* and update_graph plots the stored rows (for "ytd" the stored "max" rows
\* of the current year are plotted: C8).
C1_CachedKeyIsNotFetchedAgain ==
    [][/\ \A period \in DOMAIN data_cache :
             /\ Fetched(period) = 1
             /\ \A n \in (Len(downloads) + 1)..Len(downloads') :
                   downloads'[n].period # period
       /\ \A button_id \in ButtonIds, out \in StepOutcomes :
             LET period == PeriodOf(button_id)
             IN (period \in DOMAIN data_cache /\ update_graph(button_id, out))
                => /\ downloads' = downloads
                   /\ button_id # "ytd" =>
                         figure' = [kind |-> "plot", rows |-> data_cache[period].rows]
       /\ \A out \in StepOutcomes :
             ("max" \in DOMAIN data_cache /\ update_yearly_returns_graph(out))
             => downloads' = downloads
      ]_vars

\* "1y" was downloaded first, a download of another period failed after it,
\* and the graph shows the stored "1y" rows again: a second get("1y")
C1_Witness ==
    /\ Len(downloads) = 2
    /\ downloads[1].period = "1y" /\ Delivered(downloads[1])
    /\ downloads[2].period = "5d" /\ ~Delivered(downloads[2])
    /\ "1y" \in DOMAIN data_cache
    /\ figure = [kind |-> "plot", rows |-> data_cache["1y"].rows]
    /\ now > 0

\* C2: a request whose download fails (yf.download raises, or returns an
\* empty frame) leaves the cache mapping exactly as it was, and a request
\* for a period that is not in the cache downloads it (so the request after
\* a failure contacts the upstream source again).
C2_FailureIsNotCached ==
    [][/\ \A n \in (Len(downloads) + 1)..Len(downloads') :
             ~Delivered(downloads'[n]) => data_cache' = data_cache
       /\ \A button_id \in ButtonIds, out \in StepOutcomes :
             LET period == PeriodOf(button_id)
             IN (period \notin DOMAIN data_cache /\ update_graph(button_id, out))
                => Calls(period)' = Calls(period) + 1
       /\ \A out \in StepOutcomes :
             ("max" \notin DOMAIN data_cache /\ update_yearly_returns_graph(out))
             => Calls("max")' = Calls("max") + 1
      ]_vars

\* a download of "max" failed and the next request downloaded it again
C2_Witness ==
    /\ Len(downloads) = 2
    /\ downloads[1].period = "max" /\ ~Delivered(downloads[1])
    /\ downloads[2].period = "max" /\ Delivered(downloads[2])
    /\ "max" \in DOMAIN data_cache

\* C3: no period is downloaded with success more than once, whatever the
\* requests and whatever the upstream source did.
C3_AtMostOneSuccessfulFetch == \A period \in Buttons : Fetched(period) <= 1

\* "max" was downloaded once, after a failed download, and has served both
\* the price graph and the yearly returns
C3_Witness ==
    /\ Calls("max") = 2 /\ Fetched("max") = 1
    /\ figure.kind = "plot"
    /\ yearly.kind = "bar"

\* C4: a series, once stored under a key, stays in the cache as it was
\* stored: no step changes or removes a cache entry.
C4_CachedSeriesIsReadOnly ==
    [][\A period \in DOMAIN data_cache :
          /\ period \in DOMAIN data_cache'
          /\ data_cache'[period] = data_cache[period]
      ]_vars

\* C5: every entry of the cache is a non-empty frame, and a request whose
\* download raises or returns an empty frame gets no series: update_graph
\* shows no plot and the yearly returns are empty.
C5_NoEmptySeries ==
    [][/\ \A period \in DOMAIN data_cache' :
             /\ data_cache'[period].kind = "DataFrame"
             /\ Len(data_cache'[period].rows) > 0
       /\ \A n \in (Len(downloads) + 1)..Len(downloads') :
             ~Delivered(downloads'[n]) =>
                /\ \A button_id \in ButtonIds :
                      update_graph(button_id, downloads'[n].out) => figure'.kind # "plot"
                /\ update_yearly_returns_graph(downloads'[n].out) => yearly'.kind = "no_data"
      ]_vars

\* a download succeeded and a later one failed: the cache holds the one
\* series and the graph reports that there is no data
C5_Witness ==
    /\ Len(downloads) = 2
    /\ Delivered(downloads[1]) /\ ~Delivered(downloads[2])
    /\ Cardinality(DOMAIN data_cache) = 1
    /\ figure = NoDataFigure

\* C6: update_graph never ends in an exception: a failed fetch shows the
\* "No data available" figure, for "ytd" as for every other period.
C6_FailureIsNoDataFigure == figure.kind # "exception"

\* C7: "ytd" is never a key of a cache.
C7_YtdIsNeverCached ==
    /\ "ytd" \notin DOMAIN data_cache
    /\ "ytd" \notin DOMAIN sd_data_cache

\* C8: when update_graph serves "ytd" from a "max" series, the rows it plots
\* are exactly the rows of that series dated in the year the clock shows at
\* the call, in their order, and it reports no data when there are none.
C8_YtdIsCurrentYear ==
    [][\A out \in StepOutcomes :
          (update_graph("ytd", out) /\ "max" \in DOMAIN data_cache')
          => LET all == data_cache'["max"].rows
                 shown == figure'.rows
             IN /\ { shown[n] : n \in 1..Len(shown) }
                      = { all[n] : n \in { m \in 1..Len(all) : YearOf(all[m].Date) >= YearOf(now) } }
                /\ \A n \in 1..(Len(shown) - 1) : shown[n].Date < shown[n + 1].Date
                /\ figure'.kind = IF Len(shown) = 0 THEN "no_data" ELSE "plot"
      ]_vars

\* only "max" was ever downloaded, it spans two years, and the graph shows
\* the one row of the current year
C8_Witness ==
    /\ Len(downloads) = 1 /\ downloads[1].period = "max"
    /\ "max" \in DOMAIN data_cache
    /\ Len(data_cache["max"].rows) = 2
    /\ YearOf(data_cache["max"].rows[1].Date) < YearOf(now)
    /\ figure = [kind |-> "plot", rows |-> <<data_cache["max"].rows[2]>>]

\* C9: every download asks for minute data for "1d", hour data for "5d" and
\* daily data for every other period.
C9_IntervalFollowsKey ==
    \A n \in 1..Len(downloads) :
        downloads[n].interval =
            IF downloads[n].period = "1d" THEN "1m"
            ELSE IF downloads[n].period = "5d" THEN "1h"
            ELSE "1d"

\* C10 as stated: the three lists have num_years + 1 entries and start with
\* initial_investment, initial_investment and 0.
C10_StartsWithInitialInvestment ==
    (pc = "done" /\ args.num_years >= 1) =>
        /\ Len(result.money_invested_yearly) = args.num_years + 1
        /\ Len(result.investment_yearly) = args.num_years + 1
        /\ Len(result.profits_yearly) = args.num_years + 1
        /\ result.money_invested_yearly[1] * Unit = args.initial_investment
        /\ result.investment_yearly[1] * Unit = args.initial_investment
        /\ result.profits_yearly[1] = 0

\* C10, amended: the three lists have num_years + 1 entries and start with
\* round(initial_investment), round(initial_investment) and 0.
C10_LengthsAndRoundedStart ==
    (pc = "done" /\ args.num_years >= 1) =>
        /\ Len(result.money_invested_yearly) = args.num_years + 1
        /\ Len(result.investment_yearly) = args.num_years + 1
        /\ Len(result.profits_yearly) = args.num_years + 1
        /\ result.money_invested_yearly[1] = round(args.initial_investment)
        /\ result.investment_yearly[1] = round(args.initial_investment)
        /\ result.profits_yearly[1] = 0

\* a projection over two years of 1000.50 DKK has returned
C10_Witness ==
    /\ pc = "done"
    /\ args.num_years = 2
    /\ args.initial_investment = 1000 * Unit + Unit \div 2
    /\ Len(result.profits_yearly) = 3

\* C11: when calculate_investment has returned, money_invested_yearly[k] is
\* round(initial_investment + 12 * k * monthly_investment) for every k in
\* 0..num_years.
C11_MoneyInvestedYearly ==
    pc = "done" =>
        \A k \in 0..args.num_years :
            /\ k + 1 \in DOMAIN result.money_invested_yearly
            /\ result.money_invested_yearly[k + 1]
                  = round(args.initial_investment + 12 * k * args.monthly_investment)

\* the projection of 100000 DKK plus 5000 DKK a month over one year at 7 %
\* interest and 0.07 % charges has returned [100000, 160000]
C11_Witness ==
    /\ pc = "done"
    /\ args = [initial_investment |-> 100000 * Unit, monthly_investment |-> 5000 * Unit,
               num_years |-> 1, annual_interest_rate |-> (7 * RateDen) \div 100,
               ongoing_charges_rate |-> (7 * RateDen) \div 10000]
    /\ result.money_invested_yearly = <<100000, 160000>>

\* the running profit of month index idx before tax, from the recorded
\* investment values: the value the month started with, its interest and the
\* contribution, less everything paid in so far
PreTaxProfit(idx) ==
    investment[idx + 1]
    + TimesMonthlyRate(investment[idx + 1], args.annual_interest_rate)
    + args.monthly_investment
    - args.initial_investment - (idx + 1) * args.monthly_investment

\* C12: the tax is zero in every month index idx with (idx + 1) % 12 # 0, and
\* the profit recorded for such a month is the running profit before tax; a
\* recorded profit differs from it in the last month of a year only, and a
\* finished projection has passed num_years such months.
C12_TaxOnlyAtYearEnd ==
    pc \in {"loop", "done"} =>
        /\ \A idx \in 0..(Len(profits) - 2) :
              (idx + 1) % 12 # 0 => profits[idx + 2] = PreTaxProfit(idx)
        /\ tax # 0 => (i > 0 /\ i % 12 = 0)
        /\ pc = "done" =>
              Cardinality({ idx \in 0..(Len(profits) - 2) : (idx + 1) % 12 = 0 })
                 = args.num_years

\* a projection over two years has returned: there was a profit before
\* the first year was over, and tax was taken from the profit of month
\* index 11 and from that of month index 23, and from no other
C12_Witness ==
    /\ pc = "done"
    /\ args.num_years = 2
    /\ profits[2] > 0
    /\ { idx \in 0..(Len(profits) - 2) : profits[idx + 2] # PreTaxProfit(idx) } = {11, 23}

\* C13: in the last month of a year whose running profit before tax is
\* negative no tax is taken: the tax is zero and the recorded profit is the
\* profit before tax, never more.
C13_NegativeProfitIsNotTaxed ==
    pc \in {"loop", "done"} =>
        \A idx \in 0..(Len(profits) - 2) :
            ((idx + 1) % 12 = 0 /\ PreTaxProfit(idx) < 0)
            => /\ profits[idx + 2] = PreTaxProfit(idx)
               /\ (idx + 1 = i => tax = 0)

\* C14: calculate_investment returns its three lists for valid arguments
\* only: for num_years >= 1, amounts and rates not negative; and the lists
\* it returns have num_years + 1 entries each.
C14_InvalidInputIsRejected ==
    pc = "done" =>
        /\ args.num_years >= 1
        /\ args.initial_investment >= 0 /\ args.monthly_investment >= 0
        /\ args.annual_interest_rate >= 0 /\ args.ongoing_charges_rate >= 0
        /\ Len(result.money_invested_yearly) = args.num_years + 1
        /\ Len(result.investment_yearly) = args.num_years + 1
        /\ Len(result.profits_yearly) = args.num_years + 1

\* C15: a projection with monthly_investment = 0 and otherwise valid values
\* yields the three lists of num_years + 1 entries, from calculate_investment
\* and in the figure predict_investment returns.
C15_ZeroMonthlyIsProjected ==
    /\ (pc = "done" /\ args.monthly_investment = 0 /\ args.num_years >= 1)
       => /\ Len(result.money_invested_yearly) = args.num_years + 1
          /\ Len(result.investment_yearly) = args.num_years + 1
          /\ Len(result.profits_yearly) = args.num_years + 1
    /\ (/\ pc = "shown"
        /\ form.monthly_investment = 0
        /\ form.initial_investment > 0 /\ form.num_years >= 1
        /\ form.annual_interest_rate > 0 /\ form.ongoing_charges_rate > 0)
       => /\ prediction.kind = "traces"
          /\ Len(prediction.traces.money_invested_yearly) = form.num_years + 1
          /\ Len(prediction.traces.investment_yearly) = form.num_years + 1
          /\ Len(prediction.traces.profits_yearly) = form.num_years + 1

\* C16 as stated: without contributions, interest and charges every entry
\* of investment_yearly is initial_investment.
C16_NoGrowthKeepsInitial ==
    (/\ pc = "done"
     /\ args.num_years >= 1
     /\ args.monthly_investment = 0
     /\ args.annual_interest_rate = 0
     /\ args.ongoing_charges_rate = 0)
    => \A k \in 0..args.num_years :
          result.investment_yearly[k + 1] * Unit = args.initial_investment

\* C16, amended: without contributions, interest and charges every entry of
\* investment_yearly is round(initial_investment): the whole number nearest
\* to initial_investment, the even one of the two when it lies half-way.
C16_NoGrowthKeepsRoundedInitial ==
    (/\ pc = "done"
     /\ args.num_years >= 1
     /\ args.monthly_investment = 0
     /\ args.annual_interest_rate = 0
     /\ args.ongoing_charges_rate = 0)
    => \A k \in 0..args.num_years :
          LET v == result.investment_yearly[k + 1]
              d == v * Unit - args.initial_investment
              dist == IF d < 0 THEN 0 - d ELSE d
          IN /\ 2 * dist <= Unit
             /\ 2 * dist = Unit => v % 2 = 0

\* 1000.50 DKK, left alone for two years without interest and charges, are
\* reported as 1000 DKK in every year
C16_Witness ==
    /\ pc = "done"
    /\ args = [initial_investment |-> 1000 * Unit + Unit \div 2, monthly_investment |-> 0,
               num_years |-> 2, annual_interest_rate |-> 0, ongoing_charges_rate |-> 0]
    /\ result.investment_yearly = <<1000, 1000, 1000>>

\* the calendar years the cached "max" series has rows in
YearsOfMax ==
    IF "max" \in DOMAIN data_cache
    THEN { YearOf(data_cache["max"].rows[n].Date) : n \in 1..Len(data_cache["max"].rows) }
    ELSE {}

\* C17: the yearly returns have one entry less than the "max" series has
\* calendar years and no entry for the earliest of them; they are empty when
\* the series has fewer than two years or there is no series.
C17_EarliestYearIsExcluded ==
    yearly.kind # "initial" =>
        /\ Len(yearly.rows) = IF Cardinality(YearsOfMax) < 2 THEN 0
                              ELSE Cardinality(YearsOfMax) - 1
        /\ \A k \in 1..Len(yearly.rows) :
              \E y \in YearsOfMax : y < yearly.rows[k].Year

\* the last close the cached "max" series observed in year y
LastCloseIn(y) ==
    LET rows == data_cache["max"].rows
        last == CHOOSE n \in 1..Len(rows) :
                   /\ YearOf(rows[n].Date) = y
                   /\ \A m \in 1..Len(rows) :
                         YearOf(rows[m].Date) = y => rows[m].Date <= rows[n].Date
    IN rows[last].Close

\* the year of the series that precedes y
YearBefore(y) == CHOOSE p \in YearsOfMax : p < y /\ \A q \in YearsOfMax : q < y => q <= p

RECURSIVE UntaxedValue(_, _)
UntaxedValue(a, m) ==
    IF m = 0 THEN a.initial_investment
    ELSE LET before == UntaxedValue(a, m - 1)
             value == before + TimesMonthlyRate(before, a.annual_interest_rate)
                      + a.monthly_investment
         IN value - TimesMonthlyRate(value, a.ongoing_charges_rate)

\* C20: the investment values and the money invested are those the inputs
\* determine without any tax, whatever the class (its threshold) and
\* whatever tax was taken from the profit, a negative one included: the
\* latest monthly entries, and the yearly lists returned.
C20_TaxLeavesInvestmentValue ==
    pc \in {"loop", "done"} =>
        /\ investment_value = UntaxedValue(args, i)
        /\ investment[Len(investment)] = UntaxedValue(args, Len(investment) - 1)
        /\ money_invested[Len(money_invested)]
              = args.initial_investment + (Len(money_invested) - 1) * args.monthly_investment
        /\ pc = "done" =>
              \A k \in 1..Len(result.investment_yearly) :
                 /\ result.investment_yearly[k] = round(UntaxedValue(args, 12 * (k - 1)))
                 /\ result.money_invested_yearly[k]
                       = round(args.initial_investment + 12 * (k - 1) * args.monthly_investment)

\* a DataFetcher projection of one year has returned whose profit before tax
\* lies between the thresholds of DataFetcher and Extractor, so that the two
\* classes take different taxes from it
C20_Witness ==
    /\ pc = "done"
    /\ engine = "DataFetcher"
    /\ args.num_years = 1
    /\ PreTaxProfit(11) >= 61000 * Unit
    /\ PreTaxProfit(11) < 80000 * Unit
    /\ tax > 0
    /\ profits[13] = PreTaxProfit(11) - tax
    /\ Len(result.investment_yearly) = 2

\* thread t is inside an operation that reads the frame it holds
Reading(t) == thread[t].pc \in {"plot", "groupby"}

\* thread t is inside the assignment that modifies the frame it holds
Modifying(t) == thread[t].pc = "set_year"

\* C19: under concurrent handlers every key of the cache refers to one
\* complete, non-empty frame, and no thread reads or modifies a frame while
\* another thread is in the middle of modifying that same frame.
C19_NoReaderSeesModification ==
    /\ \A period \in DOMAIN cache_refs :
          /\ cache_refs[period] \in 1..Len(heap)
          /\ heap[cache_refs[period]].kind = "DataFrame"
          /\ Len(heap[cache_refs[period]].rows) > 0
    /\ \A t1, t2 \in Threads :
          (t1 # t2 /\ Modifying(t1) /\ (Reading(t2) \/ Modifying(t2)))
          => thread[t1].df # thread[t2].df

\* the threshold of the running class, in 1/Unit DKK
ThresholdOf(cls) == (IF cls = "Extractor" THEN 80000 ELSE 61000) * Unit

\* profits around which the schedule is probed: a loss, nothing, the
\* threshold and its two neighbours, and a profit far above it
ProbeProfits(cls) ==
    {0 - 1000 * Unit, 0, ThresholdOf(cls) - 1, ThresholdOf(cls),
     ThresholdOf(cls) + 1, 200000 * Unit}

\* C21: in the last month of a year the tax on the running profit P is
\* threshold * 0.27 + (P - threshold) * 0.42 when P >= threshold and
\* P * 0.27 otherwise (each product to the nearest 1/Unit DKK); at P =
\* threshold the two formulas give the same tax; and the tax does not
\* decrease when the profit grows.
C21_TwoBracketTax ==
    (pc \in {"loop", "done"} /\ i > 0 /\ i % 12 = 0) =>
        LET P == PreTaxProfit(i - 1)
            T == ThresholdOf(engine)
            low == 100 * tax - 27 * P
            high == 100 * tax - (27 * T + 42 * (P - T))
        IN /\ P < T => (low <= 50 /\ low >= 0 - 50)
           /\ P >= T => (high <= 100 /\ high >= 0 - 100)
           /\ TaxOf(engine, i - 1, T) = MulDiv(T, 27, 100)
           /\ \A q \in ProbeProfits(engine) :
                 /\ q <= P => TaxOf(engine, i - 1, q) <= tax
                 /\ P <= q => tax <= TaxOf(engine, i - 1, q)
           /\ \A q1, q2 \in ProbeProfits(engine) :
                 q1 <= q2 => TaxOf(engine, i - 1, q1) <= TaxOf(engine, i - 1, q2)

\* the first year of an Extractor projection ends with a profit above the
\* threshold of 80000 DKK, and the tax on it has just been taken
C21_Witness ==
    /\ pc = "loop"
    /\ engine = "Extractor"
    /\ i = 12
    /\ PreTaxProfit(11) > 80000 * Unit
    /\ tax > 21600 * Unit
    /\ profit = PreTaxProfit(11) - tax

\* the profit of month 12 * k before tax as the inputs alone determine it:
\* the untaxed value the month starts with, its interest and the
\* contribution, before the charges of that month, less everything paid in
YearEndProfit(a, k) ==
    LET before == UntaxedValue(a, 12 * k - 1)
    IN before + TimesMonthlyRate(before, a.annual_interest_rate) + a.monthly_investment
       - a.initial_investment - 12 * k * a.monthly_investment

\* C22: for k >= 1, profits_yearly[k] is round(P - tax(P)) with P the profit
\* of month 12 * k before tax, computed from an investment value that no
\* earlier tax has reduced, and tax(P) the tax of that one month.
C22_YearlyProfitIsPostTaxOfThatYear ==
    pc = "done" =>
        \A k \in 1..args.num_years :
            LET P == YearEndProfit(args, k)
            IN result.profits_yearly[k + 1] = round(P - TaxOf(engine, 12 * k - 1, P))

\* a projection over two years has returned: tax was taken in the first
\* year, the profit of the second year is the post-tax profit of month 24
\* alone, and it is not investment_yearly[2] - money_invested_yearly[2]
C22_Witness ==
    /\ pc = "done"
    /\ args.num_years = 2
    /\ profits[13] < PreTaxProfit(11)
    /\ tax > 0
    /\ result.profits_yearly[3] = round(PreTaxProfit(23) - tax)
    /\ result.profits_yearly[3]
          # result.investment_yearly[3] - result.money_invested_yearly[3]

====
